---------------------------- MODULE Spec2Model ----------------------------
(***************************************************************************)
(* The incremental highlighting driver of xi-editor's experimental         *)
(* language plugin (rust/experimental/lang): LangPlugin's event handlers,  *)
(* ViewState's scan (do_highlighting, highlight_one_line, compute_syntax,  *)
(* flush_spans) and the ScopeTracker interner.                             *)
(*                                                                         *)
(* The host (xi_plugin_lib's View and StateCache) and the Parser           *)
(* implementations live outside the two source files; they are modelled    *)
(* from the interface the specification gives for them (sections 4.2, 6).  *)
(***************************************************************************)
EXTENDS Integers, Sequences, FiniteSets, TLC

(***************************************************************************)
(* Bounds of the model.                                                    *)
(***************************************************************************)
\* the longest buffer, in lines
MaxLines == 2
\* the most events (saves, language changes, edits) the host sends a view
MaxEvents == 2

\* const LINES_PER_RPC: usize = 50;
LINES_PER_RPC == 50

(***************************************************************************)
(* Text.  A line is a sequence of one-character strings; "n" is the line   *)
(* terminator.  For the Rust grammar "k" is a keyword, "o" opens a block   *)
(* comment, "c" closes one, and any other character is plain.              *)
(***************************************************************************)
Newline == "n"

\* the texts a line of the buffer can hold
LineTexts ==
    { <<"k", "n">>, <<"x", "o", "n">>, <<"x">> }

EndsInNewline(line) == Len(line) > 0 /\ line[Len(line)] = Newline

\* the buffers: every line but the last ends in the terminator
IsBuffer(b) == \A i \in 1..Len(b) : i < Len(b) => EndsInNewline(b[i])

Buffers ==
    { b \in UNION { [1..n -> LineTexts] : n \in 0..MaxLines } : IsBuffer(b) }

\* a buffer longer than one idle tick can scan: one more line than the budget
LongLines == LINES_PER_RPC + 1

LongBuffers ==
    { [i \in 1..LongLines |-> text] : text \in { t \in LineTexts : EndsInNewline(t) } }

LanguageIds == { "Rust", "Plain Text", "Go" }

\* the view of this model (LangPlugin keys its ViewStates by ViewId)
ViewId == "view-1"

(***************************************************************************)
(* statestack::State: the lexer state carried from line to line.           *)
(***************************************************************************)
state_default == "Default"
States == { "Default", "Comment", "Keyword" }

(***************************************************************************)
(* The Parser capability: parse(text, state) = (prevlen, s0, len, s1) and  *)
(* get_scope_for_state(state).                                             *)
(***************************************************************************)
RECURSIVE FirstIn(_, _, _)
\* the least index >= i of text holding a character of chars, 0 if none
FirstIn(text, chars, i) ==
    IF i > Len(text) THEN 0
    ELSE IF text[i] \in chars THEN i
    ELSE FirstIn(text, chars, i + 1)

\* PlaintextParser::parse: the whole text is one token, the state is kept
plaintext_parse(text, state) ==
    [prevlen |-> 0, s0 |-> state, len |-> Len(text), s1 |-> state]

\* RustParser::parse: inside a comment, the token runs to the closing "c";
\* otherwise the gap runs to the next keyword or comment opener
rust_parse(text, state) ==
    IF state = "Comment"
    THEN LET j == FirstIn(text, {"c"}, 1)
         IN  IF j = 0
             THEN [prevlen |-> 0, s0 |-> "Comment", len |-> Len(text), s1 |-> "Comment"]
             ELSE [prevlen |-> 0, s0 |-> "Comment", len |-> j, s1 |-> state_default]
    ELSE LET j == FirstIn(text, {"k", "o"}, 1)
         IN  IF j = 0
             THEN [prevlen |-> 0, s0 |-> state, len |-> Len(text), s1 |-> state]
             ELSE IF text[j] = "k"
             THEN [prevlen |-> j - 1, s0 |-> "Keyword", len |-> 1, s1 |-> state]
             ELSE [prevlen |-> j - 1, s0 |-> "Comment", len |-> 1, s1 |-> "Comment"]

\* self.parser.parse(&line[i..], state)
parse(parser, text, state) ==
    IF parser = "RustParser" THEN rust_parse(text, state) ELSE plaintext_parse(text, state)

\* self.parser.get_scope_for_state(state): the plain-text parser has no scopes
get_scope_for_state(parser, state) ==
    IF parser = "RustParser"
    THEN CASE state = "Comment" -> <<"source.rust", "comment.block">>
           [] state = "Keyword" -> <<"source.rust", "keyword">>
           [] OTHER -> <<"source.rust">>
    ELSE <<>>

(***************************************************************************)
(* tracker.rs: ScopeTracker.                                               *)
(***************************************************************************)
\* ScopeTracker::default()
tracker_default == [elements |-> <<>>, next_id |-> 0]

\* a lookup that hands out the id without advancing the counter
lookup_no_increment(tracker, scope) ==
    IF scope \in DOMAIN tracker.elements
    THEN [tracker |-> tracker, kind |-> "Existing", id |-> tracker.elements[scope]]
    ELSE [tracker |-> [tracker EXCEPT
                         !.elements = [s \in DOMAIN tracker.elements \cup {scope} |->
                                         IF s = scope THEN tracker.next_id
                                         ELSE tracker.elements[s]]],
          kind |-> "New", id |-> tracker.next_id]

\* a lookup that leaves an id unused after each one it hands out
lookup_skip(tracker, scope) ==
    IF scope \in DOMAIN tracker.elements
    THEN [tracker |-> tracker, kind |-> "Existing", id |-> tracker.elements[scope]]
    ELSE [tracker |-> [elements |-> [s \in DOMAIN tracker.elements \cup {scope} |->
                                       IF s = scope THEN tracker.next_id
                                       ELSE tracker.elements[s]],
                       next_id |-> tracker.next_id + 2],
          kind |-> "New", id |-> tracker.next_id]

\* ScopeTracker::lookup
lookup(tracker, scope) ==
    IF scope \in DOMAIN tracker.elements
    THEN [tracker |-> tracker, kind |-> "Existing", id |-> tracker.elements[scope]]
    ELSE [tracker |-> [elements |-> [s \in DOMAIN tracker.elements \cup {scope} |->
                                       IF s = scope THEN tracker.next_id
                                       ELSE tracker.elements[s]],
                       next_id |-> tracker.next_id + 1],
          kind |-> "New", id |-> tracker.next_id]


(***************************************************************************)
(* The host's View and its StateCache (xi_plugin_lib), from the interface  *)
(* the driver consumes.  A view is a record:                               *)
(*   lines     the buffer, line n of the code is lines[n + 1]              *)
(*   language  get_language_id()                                           *)
(*   cache     the per-line state cache, line number -> State              *)
(*   frontier  the scan cursor: <<>> when closed, <<n>> at line n          *)
(*   idle      the idle notifications scheduled and not yet run            *)
(*   scopes    the scopes registered by add_scopes, in order               *)
(* The operations take and return a context c = [vs, view, calls, note]:   *)
(* the ViewState, the view, the host calls made so far by the running      *)
(* handler (with a "reset" or "resync" entry where the driver moved its    *)
(* offset), and what highlight_one_line did.                               *)
(***************************************************************************)
RECURSIVE OffsetOfLine(_, _)
\* the byte offset at which line n starts
OffsetOfLine(lines, n) ==
    IF n <= 0 THEN 0
    ELSE OffsetOfLine(lines, n - 1) + (IF n <= Len(lines) THEN Len(lines[n]) ELSE 0)

\* view.get_frontier(): Some(line) or None
get_frontier(view) == view.frontier

\* view.get_prev(line_num): the authoritative (line, offset, state) of the line
get_prev(view, line_num) ==
    [line_num |-> line_num,
     offset |-> OffsetOfLine(view.lines, line_num),
     state |-> IF line_num \in DOMAIN view.cache THEN view.cache[line_num]
               ELSE state_default]

\* view.get_line(line_num): the text of the line, "" past the end of the buffer
get_line(view, line_num) ==
    IF line_num + 1 \in 1..Len(view.lines) THEN view.lines[line_num + 1] ELSE <<>>

\* view.get(line_num): <<state>> for Some(state), <<>> for None
get(view, line_num) ==
    IF line_num \in DOMAIN view.cache THEN <<view.cache[line_num]>> ELSE <<>>

\* view.set(line_num, state)
set(view, line_num, state) ==
    [view EXCEPT !.cache = [l \in DOMAIN view.cache \cup {line_num} |->
                              IF l = line_num THEN state ELSE view.cache[l]]]

\* view.update_frontier(line_num)
update_frontier(view, line_num) == [view EXCEPT !.frontier = <<line_num>>]

\* view.close_frontier()
close_frontier(view) == [view EXCEPT !.frontier = <<>>]

\* view.get_cache().clear(): no state is cached and the scan restarts at line 0
clear(view) == [view EXCEPT !.cache = <<>>, !.frontier = <<0>>]

\* view.schedule_idle()
schedule_idle(c) ==
    [c EXCEPT !.view.idle = c.view.idle + 1,
              !.calls = Append(c.calls, [call |-> "schedule_idle"])]

\* view.add_scopes(&scopes)
add_scopes(c, scopes) ==
    [c EXCEPT !.view.scopes = c.view.scopes \o scopes,
              !.calls = Append(c.calls, [call |-> "add_scopes", scopes |-> scopes])]

\* view.update_spans(start, len, &spans)
update_spans(c, start, len, spans) ==
    [c EXCEPT !.calls = Append(c.calls, [call |-> "update_spans", start |-> start,
                                         len |-> len, spans |-> spans])]

\* trace_payload("unsupported language", ...)
trace_unsupported(c, language_id) ==
    [c EXCEPT !.calls = Append(c.calls, [call |-> "trace", label |-> "unsupported language",
                                         language_id |-> language_id])]

(***************************************************************************)
(* main.rs: ViewState.                                                     *)
(***************************************************************************)
\* ViewState::new()
view_state_new ==
    [current_language |-> "Plain Text",
     parser |-> "PlaintextParser",
     tracker |-> tracker_default,
     offset |-> 0,
     initial_state |-> state_default,
     spans_start |-> 0,
     spans |-> <<>>,
     new_scopes |-> <<>>]

\* what highlight_one_line notes of a call that found no frontier
\*   outcome      none (no frontier), error, empty, unterminated, converged
\*                or advanced
\*   line         the line number get_prev resolved
\*   resync       the driver moved its offset to the host's
\*   tokenized    compute_syntax ran, from start_state to end_state, on the
\*                line of line_len bytes starting line_lo bytes into the batch,
\*                and appended spans to the batch and pushed to new_scopes
\*   prev_state   the state get_prev returned for the line
\*   ret          the value highlight_one_line returned
NoNote ==
    [outcome |-> "none", line |-> 0, tokenized |-> FALSE, resync |-> FALSE,
     start_state |-> state_default, prev_state |-> state_default,
     end_state |-> state_default, line_lo |-> 0, line_len |-> 0,
     spans |-> <<>>, pushed |-> <<>>, ret |-> FALSE]

\* the context a handler starts with
Ctx(vs, view) == [vs |-> vs, view |-> view, calls |-> <<>>, note |-> NoNote]

\* an identifier_for_scope that reports the scope as new at every lookup
identifier_for_scope_push_always(tracker, new_scopes, scope) ==
    LET r == lookup(tracker, scope)
    IN  [tracker |-> r.tracker,
         new_scopes |-> Append(new_scopes, scope),
         kind |-> r.kind,
         id |-> r.id]

\* identifier_for_scope
identifier_for_scope(tracker, new_scopes, scope) ==
    LET r == lookup(tracker, scope)
    IN  [tracker |-> r.tracker,
         new_scopes |-> IF r.kind = "New" THEN Append(new_scopes, scope) ELSE new_scopes,
         kind |-> r.kind,
         id |-> r.id]

\* a span placed at the buffer offset instead of the offset into the batch
compute_syntax_span_absolute(vs, scopes, i, len) ==
    IF scopes = <<>> THEN vs
    ELSE LET r == identifier_for_scope(vs.tracker, vs.new_scopes, scopes)
             start == vs.offset + i
         IN  [vs EXCEPT !.tracker = r.tracker,
                        !.new_scopes = r.new_scopes,
                        !.spans = Append(vs.spans,
                                         [start |-> start, end |-> start + len,
                                          scope_id |-> r.id, scope |-> scopes])]

\* compute_syntax, lines 240-249 and 256-265: the span of a region of len bytes
\* at cursor i, when its scope is not empty.  A span is the code's ScopeSpan
\* {start, end, scope_id}; the model adds the scope the id was looked up for.
compute_syntax_span(vs, scopes, i, len) ==
    IF scopes = <<>> THEN vs
    ELSE LET r == identifier_for_scope(vs.tracker, vs.new_scopes, scopes)
             start == vs.offset - vs.spans_start + i
         IN  [vs EXCEPT !.tracker = r.tracker,
                        !.new_scopes = r.new_scopes,
                        !.spans = Append(vs.spans,
                                         [start |-> start, end |-> start + len,
                                          scope_id |-> r.id, scope |-> scopes])]

\* compute_syntax: let mut state = self.initial_state
compute_syntax_start(vs) == vs.initial_state

RECURSIVE compute_syntax_loop(_, _, _, _)
\* compute_syntax: the loop while i < line.len()
compute_syntax_loop(vs, line, i, state) ==
    IF i >= Len(line) THEN [vs |-> vs, state |-> state]
    ELSE LET p == parse(vs.parser, SubSeq(line, i + 1, Len(line)), state)
             vs1 == IF p.prevlen > 0
                    THEN compute_syntax_span(
                           vs, get_scope_for_state(vs.parser, vs.initial_state),
                           i, p.prevlen)
                    ELSE vs
             i1 == IF p.prevlen > 0 THEN i + p.prevlen ELSE i
             vs2 == compute_syntax_span(vs1, get_scope_for_state(vs.parser, p.s0), i1, p.len)
         IN  compute_syntax_loop(vs2, line, i1 + p.len, p.s1)

\* compute_syntax: the ViewState after the line, and the state at its end
compute_syntax(vs, line) == compute_syntax_loop(vs, line, 0, compute_syntax_start(vs))

\* a flush that registers the pending scopes and keeps them pending
flush_spans_scopes_keep(c) ==
    IF c.vs.new_scopes # <<>> THEN add_scopes(c, c.vs.new_scopes) ELSE c

\* flush_spans, lines 275-283
flush_spans_scopes(c) ==
    IF c.vs.new_scopes # <<>>
    THEN [add_scopes(c, c.vs.new_scopes) EXCEPT !.vs.new_scopes = <<>>]
    ELSE c

\* a flush that reports the batch and keeps its spans pending
flush_spans_batch_keep_spans(c) ==
    IF c.vs.spans_start # c.vs.offset
    THEN update_spans(c, c.vs.spans_start, c.vs.offset - c.vs.spans_start, c.vs.spans)
    ELSE c

\* a flush that reports the batch even when it covers no bytes
flush_spans_batch_always(c) ==
    [update_spans(c, c.vs.spans_start, c.vs.offset - c.vs.spans_start, c.vs.spans)
       EXCEPT !.vs.spans = <<>>]

\* flush_spans, lines 285-293
flush_spans_batch(c) ==
    IF c.vs.spans_start # c.vs.offset
    THEN [update_spans(c, c.vs.spans_start, c.vs.offset - c.vs.spans_start, c.vs.spans)
            EXCEPT !.vs.spans = <<>>]
    ELSE c

\* a flush that leaves the start of the batch where it was
flush_spans_mark_keep(c) == c

\* flush_spans, line 295
flush_spans_mark(c) == [c EXCEPT !.vs.spans_start = c.vs.offset]

\* flush_spans
flush_spans(c) == flush_spans_mark(flush_spans_batch(flush_spans_scopes(c)))

\* a reset that forgets spans_start
do_highlighting_reset_keep_start(c) ==
    [c EXCEPT !.vs.offset = 0,
              !.vs.initial_state = state_default,
              !.vs.spans = <<>>,
              !.vs.new_scopes = <<>>,
              !.view = clear(c.view),
              !.calls = Append(c.calls, [call |-> "reset"])]

\* do_highlighting, lines 156-161: the reset
do_highlighting_reset(c) ==
    [c EXCEPT !.vs.offset = 0,
              !.vs.spans_start = 0,
              !.vs.initial_state = state_default,
              !.vs.spans = <<>>,
              !.vs.new_scopes = <<>>,
              !.view = clear(c.view),
              !.calls = Append(c.calls, [call |-> "reset"])]

\* do_highlighting, lines 164-175: the parser of a language id
parser_for(language_id) ==
    IF language_id = "Rust" THEN "RustParser" ELSE "PlaintextParser"

\* a selection that does not compare the language with the current one
do_highlighting_parser_always(c) ==
    LET c1 == IF c.view.language \notin {"Rust", "Plain Text"}
              THEN trace_unsupported(c, c.view.language)
              ELSE c
    IN  [c1 EXCEPT !.vs.current_language = c.view.language,
                   !.vs.parser = parser_for(c.view.language)]

\* do_highlighting, lines 163-179: the parser follows the view's language
do_highlighting_parser(c) ==
    IF c.view.language # c.vs.current_language
    THEN LET c1 == IF c.view.language \notin {"Rust", "Plain Text"}
                   THEN trace_unsupported(c, c.view.language)
                   ELSE c
         IN  [c1 EXCEPT !.vs.current_language = c.view.language,
                        !.vs.parser = parser_for(c.view.language)]
    ELSE c

\* a re-highlight that leaves it to the host to come back
do_highlighting_no_schedule(c) == do_highlighting_parser(do_highlighting_reset(c))

\* do_highlighting
do_highlighting(c) == schedule_idle(do_highlighting_parser(do_highlighting_reset(c)))

\* a resynchronization that moves the start of the batch and leaves offset
highlight_one_line_resync_start_only(c, offset) ==
    IF offset # c.vs.offset
    THEN LET c1 == flush_spans(c)
         IN  [c1 EXCEPT !.vs.spans_start = offset,
                        !.note.resync = TRUE,
                        !.calls = Append(c1.calls, [call |-> "resync", offset |-> offset])]
    ELSE c

\* a resynchronization that moves offset and leaves the batch where it started
highlight_one_line_resync_offset_only(c, offset) ==
    IF offset # c.vs.offset
    THEN LET c1 == flush_spans(c)
         IN  [c1 EXCEPT !.vs.offset = offset,
                        !.note.resync = TRUE,
                        !.calls = Append(c1.calls, [call |-> "resync", offset |-> offset])]
    ELSE c

\* highlight_one_line, lines 188-192: resynchronize with the host's offset
highlight_one_line_resync(c, offset) ==
    IF offset # c.vs.offset
    THEN LET c1 == flush_spans(c)
         IN  [c1 EXCEPT !.vs.offset = offset,
                        !.vs.spans_start = offset,
                        !.note.resync = TRUE,
                        !.calls = Append(c1.calls, [call |-> "resync", offset |-> offset])]
    ELSE c

\* an advance that never compares with the cached state
highlight_one_line_advance_no_convergence(c, line_num, has_next, new_state) ==
    IF has_next
    THEN [c EXCEPT !.view = update_frontier(set(c.view, line_num + 1, new_state),
                                           line_num + 1),
                   !.note.outcome = "advanced",
                   !.note.ret = TRUE]
    ELSE [c EXCEPT !.view = close_frontier(c.view), !.note.ret = FALSE]

\* an advance that reports more work where there is none
highlight_one_line_advance_never_closes(c, line_num, has_next, new_state) ==
    LET converged == has_next /\ get(c.view, line_num + 1) = <<new_state>>
    IN  IF ~converged /\ has_next
        THEN [c EXCEPT !.view = update_frontier(set(c.view, line_num + 1, new_state),
                                               line_num + 1),
                       !.note.outcome = "advanced",
                       !.note.ret = TRUE]
        ELSE [c EXCEPT !.note.outcome = IF converged THEN "converged" ELSE c.note.outcome,
                       !.note.ret = TRUE]

\* an advance that moves the frontier and caches nothing
highlight_one_line_advance_no_set(c, line_num, has_next, new_state) ==
    LET converged == has_next /\ get(c.view, line_num + 1) = <<new_state>>
    IN  IF ~converged /\ has_next
        THEN [c EXCEPT !.view = update_frontier(c.view, line_num + 1),
                       !.note.outcome = "advanced",
                       !.note.ret = TRUE]
        ELSE [c EXCEPT !.view = close_frontier(c.view),
                       !.note.outcome = IF converged THEN "converged" ELSE c.note.outcome,
                       !.note.ret = FALSE]

\* highlight_one_line, lines 209-224: converge, advance or close the frontier
highlight_one_line_advance(c, line_num, has_next, new_state) ==
    LET converged == has_next /\ get(c.view, line_num + 1) = <<new_state>>
    IN  IF ~converged /\ has_next
        THEN [c EXCEPT !.view = update_frontier(set(c.view, line_num + 1, new_state),
                                               line_num + 1),
                       !.note.outcome = "advanced",
                       !.note.ret = TRUE]
        ELSE [c EXCEPT !.view = close_frontier(c.view),
                       !.note.outcome = IF converged THEN "converged" ELSE c.note.outcome,
                       !.note.ret = FALSE]

\* highlight_one_line; fails says whether get_line returns Err
highlight_one_line(c, fails) ==
    IF get_frontier(c.view) = <<>> THEN [c EXCEPT !.note = NoNote]
    ELSE LET prev == get_prev(c.view, get_frontier(c.view)[1])
             line_num == prev.line_num
             c0 == [c EXCEPT !.note = [NoNote EXCEPT !.line = line_num,
                                                     !.prev_state = prev.state]]
             c1 == highlight_one_line_resync(c0, prev.offset)
             line == get_line(c1.view, line_num)
         IN  IF fails
             THEN highlight_one_line_advance([c1 EXCEPT !.note.outcome = "error"],
                                             line_num, FALSE, state_default)
             ELSE IF line = <<>>
             THEN highlight_one_line_advance([c1 EXCEPT !.note.outcome = "empty"],
                                             line_num, FALSE, state_default)
             ELSE LET r == compute_syntax(c1.vs, line)
                      c2 == [c1 EXCEPT !.vs = [r.vs EXCEPT !.offset = r.vs.offset + Len(line)],
                                       !.note.tokenized = TRUE,
                                       !.note.line_lo = c1.vs.offset - c1.vs.spans_start,
                                       !.note.line_len = Len(line),
                                       !.note.spans = SubSeq(r.vs.spans, Len(c1.vs.spans) + 1,
                                                             Len(r.vs.spans)),
                                       !.note.pushed = SubSeq(r.vs.new_scopes,
                                                              Len(c1.vs.new_scopes) + 1,
                                                              Len(r.vs.new_scopes)),
                                       !.note.start_state = compute_syntax_start(c1.vs),
                                       !.note.end_state = r.state,
                                       !.note.outcome = "unterminated"]
                  IN  highlight_one_line_advance(c2, line_num, EndsInNewline(line), r.state)


(***************************************************************************)
(* The state.                                                              *)
(*   view_states  LangPlugin.view_states: ViewId -> ViewState              *)
(*   view         the host's view                                          *)
(*   pc, iter     the position of the idle handler: "ready" between        *)
(*                handlers, "idle" inside the loop of idle after iter      *)
(*                iterations                                               *)
(*   events       the events the host has sent the view since it opened    *)
(*   hist         history of the session, see HistNew                      *)
(*   last         what the last handler step did: the handler, the note    *)
(*                of its highlight_one_line call, its host calls, and      *)
(*                whether one of its update_spans calls started elsewhere  *)
(*                than the call before it ended (gap), also without the    *)
(*                driver having moved its offset in between (gap_clean),   *)
(*                or right where it ended (contig)                         *)
(***************************************************************************)
VARIABLES view_states, view, pc, iter, events, hist, last

vars == <<view_states, view, pc, iter, events, hist, last>>

HasState == ViewId \in DOMAIN view_states

\* the scan since the last do_highlighting: its update_spans calls, the number
\* of highlight_one_line calls of each idle tick, and whether it ran without an
\* edit and without a failed read (the calls and ticks are kept only while it
\* does)
ScanNew == [log |-> <<>>, ticks |-> <<>>, clean |-> TRUE]

ScanBroken == [log |-> <<>>, ticks |-> <<>>, clean |-> FALSE]

\* the history of a session that has delivered nothing:
\*   upd_last  the byte range of the last update_spans call
\*   broken    the driver moved its offset (reset, resync) since that call
\*   pushed    the scopes pushed to new_scopes, in order
\*   first_id  the id each scope got when it was first looked up
\*   seen      the scopes looked up, each once, in the order of first lookup
\*   stop      the line at which the scan converged, until the next event
\*   scan      the scan since the last do_highlighting
\*   prev      the scan before it, if it ran to the end of the same buffer
\*             in the same language, while the scan since is clean
HistNew ==
    [upd_last |-> <<>>, broken |-> FALSE, pushed |-> <<>>, first_id |-> <<>>,
     seen |-> <<>>, stop |-> <<>>, scan |-> ScanNew, prev |-> <<>>]

RangeEnd(r) == r.start + r.len

RECURSIVE FoldCalls(_, _, _)
\* the history after the entries i.. of calls
FoldCalls(acc, calls, i) ==
    IF i > Len(calls) THEN acc
    ELSE LET e == calls[i]
         IN  FoldCalls(
               CASE e.call = "update_spans" ->
                      LET seq == acc.upd_last # <<>>
                          off == seq /\ e.start # RangeEnd(acc.upd_last[1])
                      IN  [acc EXCEPT !.upd_last = <<[start |-> e.start, len |-> e.len]>>,
                                      !.broken = FALSE,
                                      !.log = Append(acc.log, e),
                                      !.gap = acc.gap \/ off,
                                      !.gap_clean = acc.gap_clean \/ (off /\ ~acc.broken),
                                      !.contig = acc.contig \/ (seq /\ ~off)]
                 [] e.call \in {"reset", "resync"} -> [acc EXCEPT !.broken = TRUE]
                 [] OTHER -> acc,
               calls, i + 1)

\* the calls of a kind among calls
CallsOf(calls, kind) == SelectSeq(calls, LAMBDA e : e.call = kind)

RECURSIVE FirstIds(_, _, _)
\* first_id after the lookups behind the spans i.. of spans
FirstIds(ids, spans, i) ==
    IF i > Len(spans) THEN ids
    ELSE FirstIds(IF spans[i].scope \in DOMAIN ids THEN ids
                  ELSE [x \in DOMAIN ids \cup {spans[i].scope} |->
                          IF x = spans[i].scope THEN spans[i].scope_id ELSE ids[x]],
                  spans, i + 1)

\* the scan of a buffer is logged call by call when the buffer is short
Recorded(v) == Len(v.lines) <= MaxLines

RECURSIVE FirstSeen(_, _, _)
\* seen after the lookups behind the spans i.. of spans
FirstSeen(seen, spans, i) ==
    IF i > Len(spans) THEN seen
    ELSE FirstSeen(IF \E k \in 1..Len(seen) : seen[k] = spans[i].scope THEN seen
                   ELSE Append(seen, spans[i].scope),
                   spans, i + 1)

\* highlight_one_line tokenized a terminated line, and the state the host has
\* cached for the next line is the state computed for the line's end
ConvergencePremise(v, note) ==
    /\ note.tokenized
    /\ EndsInNewline(v.lines[note.line + 1])
    /\ note.line + 1 \in DOMAIN v.cache
    /\ v.cache[note.line + 1] = note.end_state

\* what a handler leaves behind: the ViewState, the view, the history.  v is
\* the view the handler started with, h the history it started with.
Commit(op, c, v, h) ==
    LET f == FoldCalls([upd_last |-> h.upd_last, broken |-> h.broken, log |-> h.scan.log,
                        gap |-> FALSE, gap_clean |-> FALSE, contig |-> FALSE],
                       c.calls, 1)
        ended == op \in {"idle_done", "idle_yield", "idle_budget"}
    IN  /\ view_states' = [x \in {ViewId} |-> c.vs]
        /\ view' = c.view
        /\ hist' = [h EXCEPT
                      !.upd_last = f.upd_last,
                      !.broken = f.broken,
                      !.pushed = h.pushed \o c.note.pushed,
                      !.first_id = FirstIds(h.first_id, c.note.spans, 1),
                      !.seen = FirstSeen(h.seen, c.note.spans, 1),
                      !.stop = IF ConvergencePremise(v, c.note) THEN <<c.note.line>>
                               ELSE h.stop,
                      !.scan = IF Recorded(v) /\ h.scan.clean /\ c.note.outcome # "error"
                               THEN [log |-> f.log,
                                     ticks |-> IF ended THEN Append(h.scan.ticks, iter + 1)
                                               ELSE h.scan.ticks,
                                     clean |-> TRUE]
                               ELSE ScanBroken,
                      !.prev = IF h.scan.clean /\ c.note.outcome # "error" THEN h.prev
                               ELSE <<>>]
        /\ last' = [op |-> op, note |-> c.note, calls |-> c.calls,
                    gap |-> f.gap, gap_clean |-> f.gap_clean, contig |-> f.contig]

\* the history as do_highlighting starts a scan: the scan before it is kept if
\* it reached the end of the buffer and the language stays (same)
HistRescan(h, v, same) ==
    [h EXCEPT !.stop = <<>>,
              !.scan = ScanNew,
              !.prev = IF same /\ h.scan.clean /\ v.frontier = <<>>
                       THEN <<[log |-> h.scan.log, ticks |-> h.scan.ticks]>>
                       ELSE <<>>]

\* the history as an edit arrives
HistEdit(h) == [h EXCEPT !.stop = <<>>, !.scan = ScanBroken, !.prev = <<>>]

\* a view the host has not opened: nothing cached, no scan cursor
ViewClosed(lines, language) ==
    [lines |-> lines, language |-> language, cache |-> <<>>, frontier |-> <<>>,
     idle |-> 0, scopes |-> <<>>]

LastNone ==
    [op |-> "init", note |-> NoNote, calls |-> <<>>, gap |-> FALSE,
     gap_clean |-> FALSE, contig |-> FALSE]

\* LangPlugin::new(): no view state; the host holds some buffer in some language
Init ==
    /\ view_states = <<>>
    /\ view \in { ViewClosed(b, l) : b \in Buffers, l \in LanguageIds }
    /\ pc = "ready"
    /\ iter = 0
    /\ events = 0
    /\ hist = HistNew
    /\ last = LastNone

\* Plugin::new_view
new_view ==
    /\ pc = "ready"
    /\ ~HasState
    /\ Commit("new_view", do_highlighting(Ctx(view_state_new, view)), view, HistNew)
    /\ UNCHANGED <<pc, iter, events>>

\* Plugin::did_save
did_save ==
    /\ pc = "ready"
    /\ HasState
    /\ events < MaxEvents
    /\ events' = events + 1
    /\ Commit("did_save", do_highlighting(Ctx(view_states[ViewId], view)), view,
              HistRescan(hist, view, TRUE))
    /\ UNCHANGED <<pc, iter>>

\* Plugin::language_changed, after the host changed the view's language
language_changed ==
    /\ pc = "ready"
    /\ HasState
    /\ events < MaxEvents
    /\ events' = events + 1
    /\ \E l \in LanguageIds \ {view.language} :
         Commit("language_changed",
                do_highlighting(Ctx(view_states[ViewId], [view EXCEPT !.language = l])),
                view, HistRescan(hist, view, FALSE))
    /\ UNCHANGED <<pc, iter>>

\* the host's side of an edit that replaces line k by text: the scan cursor
\* moves back to the edited line, the cached states are kept
EditLine(v, k, text) ==
    [v EXCEPT !.lines = [v.lines EXCEPT ![k + 1] = text],
              !.frontier = IF v.frontier = <<>> \/ k < v.frontier[1] THEN <<k>>
                           ELSE v.frontier]

\* Plugin::update, after the host applied an edit
update ==
    /\ pc = "ready"
    /\ HasState
    /\ events < MaxEvents
    /\ events' = events + 1
    /\ \E k \in 0..(Len(view.lines) - 1), text \in LineTexts :
         /\ text # view.lines[k + 1]
         /\ IsBuffer([view.lines EXCEPT ![k + 1] = text])
         /\ Commit("update",
                   schedule_idle(Ctx(view_states[ViewId], EditLine(view, k, text))),
                   view, HistEdit(hist))
    /\ UNCHANGED <<pc, iter>>

\* Plugin::did_close: the view state is dropped, and the host's view with it
did_close ==
    /\ pc = "ready"
    /\ HasState
    /\ view_states' = <<>>
    /\ view' = ViewClosed(view.lines, view.language)
    /\ hist' = HistNew
    /\ last' = [LastNone EXCEPT !.op = "did_close"]
    /\ events' = 0
    /\ UNCHANGED <<pc, iter>>

\* Plugin::idle, lines 109-111: the host runs a scheduled idle notification
idle_begin ==
    /\ pc = "ready"
    /\ HasState
    /\ view.idle > 0
    /\ pc' = "idle"
    /\ iter' = 0
    /\ view' = [view EXCEPT !.idle = view.idle - 1]
    /\ last' = [LastNone EXCEPT !.op = "idle_begin"]
    /\ UNCHANGED <<view_states, events, hist>>

\* a loop that runs once more than the budget allows
idle_budget_left_inclusive(i) == i + 1 <= LINES_PER_RPC

\* Plugin::idle, line 112: for _ in 0..LINES_PER_RPC, after i + 1 iterations
idle_budget_left(i) == i + 1 < LINES_PER_RPC

\* Plugin::idle, lines 112-125: one iteration of the loop, with what follows
\* the loop when this iteration ends it; fails says whether get_line returns
\* Err, pending what request_is_pending returns
idle_line ==
    /\ pc = "idle"
    /\ \E fails \in BOOLEAN, pending \in BOOLEAN :
         LET c == highlight_one_line(Ctx(view_states[ViewId], view), fails)
         IN  IF ~c.note.ret
             THEN /\ Commit("idle_done", flush_spans(c), view, hist)
                  /\ pc' = "ready"
                  /\ iter' = 0
             ELSE IF pending \/ ~idle_budget_left(iter)
             THEN /\ Commit(IF pending THEN "idle_yield" ELSE "idle_budget",
                            schedule_idle(flush_spans(c)), view, hist)
                  /\ pc' = "ready"
                  /\ iter' = 0
             ELSE /\ Commit("idle_line", c, view, hist)
                  /\ pc' = "idle"
                  /\ iter' = iter + 1
    /\ UNCHANGED events

Next ==
    \/ new_view
    \/ did_save
    \/ language_changed
    \/ update
    \/ did_close
    \/ idle_begin
    \/ idle_line

Spec == Init /\ [][Next]_vars

\* one scan: the host opens the view and runs the idle notifications, and sends
\* no edit, save or language change
Scan ==
    \/ new_view
    \/ idle_begin
    \/ idle_line

\* the host holds a Rust buffer longer than the budget of one idle tick
InitLong ==
    /\ view_states = <<>>
    /\ view \in { ViewClosed(b, "Rust") : b \in LongBuffers }
    /\ pc = "ready"
    /\ iter = 0
    /\ events = 0
    /\ hist = HistNew
    /\ last = LastNone

\* one scan of a long buffer
SpecLong == InitLong /\ [][Scan]_vars

\* the loop of idle takes its next iteration: the step idle_line as pc and iter
\* show it.  In a scan only idle_line leaves a state with pc = "idle", it is
\* enabled in every such state, and it always changes pc or iter.
idle_runs ==
    /\ pc = "idle"
    /\ pc' \in {"ready", "idle"}
    /\ iter' \in {0, iter + 1}
    /\ <<pc', iter'>> # <<pc, iter>>

\* the host holds a short or a long buffer
InitScan == Init \/ InitLong

\* one scan, the host running every idle notification it has scheduled, and a
\* running idle handler taking every iteration of its loop
SpecFair ==
    InitScan /\ [][Scan]_vars /\ WF_vars(idle_begin) /\ WF_<<pc, iter>>(idle_runs)

(***************************************************************************)
(* The properties.                                                         *)
(***************************************************************************)
IdleOps == {"idle_line", "idle_done", "idle_yield", "idle_budget"}

HighlightOps == {"new_view", "did_save", "language_changed"}

\* C1, first half: a highlight_one_line call that tokenizes a terminated line n
\* while the state cached for line n + 1 equals the state it computed closes
\* the frontier, leaves the cache as it was, returns false, and ends the tick.
C1_ConvergedStep ==
    (pc = "idle" /\ ConvergencePremise(view, last'.note))
      => /\ view'.frontier = <<>>
         /\ view'.cache = view.cache
         /\ ~last'.note.ret
         /\ pc' = "ready"
         /\ view'.idle = view.idle

\* C1, second half: from then until the next edit or re-highlight, an idle tick
\* reads and tokenizes no line and delivers no span.
C1_QuietAfterConvergence ==
    (pc = "idle" /\ hist.stop # <<>>)
      => /\ last'.note.outcome = "none"
         /\ CallsOf(last'.calls, "update_spans") = <<>>

\* C1: convergence stops the scan: the frontier is closed, the cache is not
\* written, highlight_one_line returns false, and no line is read or tokenized
\* and no span flushed until the next edit or re-highlight.
C1_ConvergenceStopsScan == [][C1_ConvergedStep /\ C1_QuietAfterConvergence]_vars

\* the scan converged at a line that is not the last of its buffer
C1_Witness ==
    /\ last.op = "idle_done"
    /\ last.note.outcome = "converged"
    /\ hist.stop = <<last.note.line>>
    /\ Len(view.lines) > last.note.line + 1

\* C2: every line the driver tokenizes is tokenized from the state valid at its
\* start: the state the host caches for the line (the end state of the line
\* before it), the default state where none is cached.
C2_LineStartsFromPrecedingState ==
    last.note.tokenized => last.note.start_state = last.note.prev_state

\* C3: do_highlighting (new_view, did_save, language_changed) leaves the
\* interner empty, so that the next scope looked up is new and gets id 0.
C3_RehighlightResetsInterner ==
    last.op \in HighlightOps => view_states[ViewId].tracker = tracker_default

NoDuplicates(seq) == \A i, j \in 1..Len(seq) : i # j => seq[i] # seq[j]

Elements(seq) == { seq[i] : i \in 1..Len(seq) }

\* C4: in one session two different scopes never get the same id, every lookup
\* of a scope returns the id its first lookup returned, each scope is pushed to
\* new_scopes once (by its first lookup), and the table and the counter grow
\* only with those first lookups.
C4_InternerUniqueness ==
    HasState =>
      LET tracker == view_states[ViewId].tracker
      IN  /\ \A a, b \in DOMAIN hist.first_id :
                a # b => hist.first_id[a] # hist.first_id[b]
          /\ \A i \in 1..Len(last.note.spans) :
                last.note.spans[i].scope_id = hist.first_id[last.note.spans[i].scope]
          /\ NoDuplicates(hist.pushed)
          /\ Elements(hist.pushed) = DOMAIN hist.first_id
          /\ DOMAIN tracker.elements = DOMAIN hist.first_id
          /\ tracker.next_id = Len(hist.pushed)

\* a line looked a scope up that an earlier step had interned, after a second
\* scope was interned
C4_Witness ==
    /\ HasState
    /\ Len(hist.pushed) >= 2
    /\ last.note.spans # <<>>
    /\ last.note.pushed = <<>>

SpanValid(span) == 0 <= span.start /\ span.start < span.end

SpansSorted(spans) == \A i \in 1..(Len(spans) - 1) : spans[i].end <= spans[i + 1].start

\* C5: every span compute_syntax appends has 0 <= start < end and lies within
\* the line it was computed from, and the spans of every update_spans call are
\* sorted by start, do not overlap, and lie within the call's byte range.
C5_SpanValidity ==
    /\ last.note.tokenized =>
         \A i \in 1..Len(last.note.spans) :
            /\ SpanValid(last.note.spans[i])
            /\ last.note.line_lo <= last.note.spans[i].start
            /\ last.note.spans[i].end <= last.note.line_lo + last.note.line_len
    /\ \A k \in 1..Len(last.calls) :
         last.calls[k].call = "update_spans" =>
            /\ SpansSorted(last.calls[k].spans)
            /\ \A i \in 1..Len(last.calls[k].spans) :
                  /\ SpanValid(last.calls[k].spans[i])
                  /\ last.calls[k].spans[i].end <= last.calls[k].len
    /\ HasState => SpansSorted(view_states[ViewId].spans)

\* a batch of spans from two lines was delivered, its start not at offset 0
C5_Witness ==
    \E k \in 1..Len(last.calls) :
       /\ last.calls[k].call = "update_spans"
       /\ Len(last.calls[k].spans) >= 2
       /\ last.calls[k].start > 0

\* C6 as stated: every update_spans call of a session starts where the call
\* before it ended.
C6_AlwaysContiguous == ~last.gap

\* C6 as amended: an update_spans call starts where the call before it ended
\* unless the driver moved its offset in between (do_highlighting reset it to
\* 0, or highlight_one_line resynchronized it with the host's).
C6_ContiguousWithinScan == ~last.gap_clean

\* an update_spans call started where the call before it ended
C6_Witness == last.contig

\* C7: an idle tick that finds the frontier closed makes no add_scopes and no
\* update_spans call and leaves the ViewState (offset, spans_start, interner),
\* the state cache and the registered scopes as they were.
C7_IdleAfterConvergenceIsNoop ==
    [][(pc = "idle" /\ view.frontier = <<>>)
         => /\ CallsOf(last'.calls, "add_scopes") = <<>>
            /\ CallsOf(last'.calls, "update_spans") = <<>>
            /\ view_states' = view_states
            /\ view'.cache = view.cache
            /\ view'.scopes = view.scopes]_vars

\* an idle tick ran with the frontier closed, after a scan that delivered spans
C7_Witness ==
    /\ last.op = "idle_done"
    /\ last.note.outcome = "none"
    /\ hist.upd_last # <<>>

\* a scan has run to the end of the buffer, and so did the scan before it, on
\* the same buffer, in the same language, with the same tick boundaries
TwoFullScans ==
    /\ pc = "ready"
    /\ HasState
    /\ view.frontier = <<>>
    /\ hist.scan.clean
    /\ hist.prev # <<>>
    /\ hist.prev[1].ticks = hist.scan.ticks

\* C8: two full scans of the same buffer with the same parser and the same tick
\* boundaries make the same update_spans calls: same ranges, same spans, same
\* scope ids.
C8_Deterministic == TwoFullScans => hist.scan.log = hist.prev[1].log

\* two full scans in two ticks each, delivering spans
C8_Witness ==
    /\ TwoFullScans
    /\ Len(hist.scan.log) >= 2
    /\ \E k \in 1..Len(hist.scan.log) : hist.scan.log[k].spans # <<>>

\* C9: when get_line fails, highlight_one_line returns false without tokenizing
\* and the frontier stays at the line, so that the next idle tick retries it.
C9_FailedReadKeepsFrontier ==
    last.note.outcome = "error"
      => /\ ~last.note.ret
         /\ ~last.note.tokenized
         /\ view.frontier = <<last.note.line>>

\* C10: after do_highlighting current_language is the view's language and the
\* parser is the Rust parser exactly for "Rust"; a switch to an unrecognized
\* language emits the diagnostic once, a re-highlight in the same language
\* emits none.
C10_LanguageFollowsView ==
    HasState =>
      /\ view_states[ViewId].current_language = view.language
      /\ view_states[ViewId].parser = "RustParser" <=> view.language = "Rust"
      /\ view_states[ViewId].parser \in {"RustParser", "PlaintextParser"}
      /\ last.op \in HighlightOps =>
           Len(CallsOf(last.calls, "trace")) =
             IF last.op # "did_save" /\ view.language \notin {"Rust", "Plain Text"}
             THEN 1 ELSE 0

\* a save re-highlighted a view in an unsupported language
C10_Witness ==
    /\ last.op = "did_save"
    /\ view.language = "Go"
    /\ view_states[ViewId].parser = "PlaintextParser"

SuspendOps == {"idle_done", "idle_yield", "idle_budget"}

\* nothing is pending in the ViewState
Flushed(vs) == vs.spans = <<>> /\ vs.new_scopes = <<>> /\ vs.spans_start = vs.offset

\* C11: whenever idle has returned for a view with a ViewState (no more work,
\* request pending, or budget used up), the pending spans and the pending new
\* scopes are empty and spans_start = offset; and they stay so until the next
\* idle notification runs.
C11_NothingUnflushedAtSuspension ==
    (HasState /\ (pc = "ready" \/ last.op \in SuspendOps)) => Flushed(view_states[ViewId])

\* idle returned because a request was pending, after it resynchronized with an
\* edit and registered a scope and delivered spans
C11_Witness ==
    /\ last.op = "idle_yield"
    /\ last.note.resync
    /\ CallsOf(last.calls, "add_scopes") # <<>>
    /\ \E k \in 1..Len(last.calls) :
          last.calls[k].call = "update_spans" /\ last.calls[k].spans # <<>>

\* the step is an iteration of the loop of idle: iter calls of
\* highlight_one_line were made by this idle invocation before it
C12_TickStep ==
    LET ret == last'.note.ret
        scheduled == Len(CallsOf(last'.calls, "schedule_idle"))
        suspended == pc' = "ready" /\ Flushed(view_states'[ViewId])
    IN  /\ iter + 1 <= LINES_PER_RPC
        /\ last'.op \in IdleOps
        /\ ~ret <=> last'.op = "idle_done"
        /\ (ret /\ iter + 1 = LINES_PER_RPC) => last'.op \in {"idle_yield", "idle_budget"}
        /\ last'.op = "idle_done"
             => suspended /\ scheduled = 0 /\ view'.idle = view.idle
        /\ last'.op = "idle_yield"
             => suspended /\ scheduled = 1 /\ view'.idle = view.idle + 1
        /\ last'.op = "idle_budget"
             => /\ iter + 1 = LINES_PER_RPC
                /\ suspended /\ scheduled = 1 /\ view'.idle = view.idle + 1
        /\ last'.op = "idle_line"
             => /\ pc' = "idle" /\ iter' = iter + 1 /\ iter' < LINES_PER_RPC
                /\ scheduled = 0 /\ view'.idle = view.idle

\* C12: one idle invocation calls highlight_one_line at most LINES_PER_RPC
\* times; the first call that returns false ends it with a flush and without
\* schedule_idle; a call that returns true ends it when a request is pending or
\* when it was the LINES_PER_RPC-th call, with a flush and one schedule_idle;
\* any other call is followed by the next call.
C12_BoundedCooperativeTick == [][pc = "idle" => C12_TickStep]_vars

\* an idle invocation used up its budget and delivered the spans of
\* LINES_PER_RPC lines in one batch
C12_Witness ==
    /\ last.op = "idle_budget"
    /\ \E k \in 1..Len(last.calls) :
          last.calls[k].call = "update_spans" /\ Len(last.calls[k].spans) >= LINES_PER_RPC

\* C13: after do_highlighting (new_view, did_save, language_changed) offset and
\* spans_start are 0, initial_state is the default state, the pending spans and
\* the pending new scopes are empty, the host's state cache is empty, and
\* schedule_idle was called once, whatever the ViewState held before.
C13_FullReset ==
    last.op \in HighlightOps =>
      /\ view_states[ViewId].offset = 0
      /\ view_states[ViewId].spans_start = 0
      /\ view_states[ViewId].initial_state = state_default
      /\ view_states[ViewId].spans = <<>>
      /\ view_states[ViewId].new_scopes = <<>>
      /\ view.cache = <<>>
      /\ Len(CallsOf(last.calls, "schedule_idle")) = 1
      /\ view.idle >= 1

\* a save or a language change re-highlighted a view whose scan had moved the
\* offset and interned scopes
C13_Witness ==
    /\ last.op \in {"did_save", "language_changed"}
    /\ hist.upd_last # <<>>
    /\ RangeEnd(hist.upd_last[1]) > 0
    /\ view_states[ViewId].tracker.next_id > 0

\* the step is a call of highlight_one_line with the frontier at line n
C14_CallAtFrontier ==
    LET n == view.frontier[1]
        note == last'.note
        line == get_line(view, n)
        read == note.outcome # "error" /\ line # <<>>
        offset == view_states[ViewId].offset
        offset_after == view_states'[ViewId].offset
    IN  /\ note.ret <=> /\ read
                        /\ EndsInNewline(line)
                        /\ get(view, n + 1) # <<note.end_state>>
        /\ note.ret => /\ view'.cache = set(view, n + 1, note.end_state).cache
                       /\ view'.frontier = <<n + 1>>
        /\ ~note.ret => view'.frontier = <<>>
        /\ note.tokenized <=> read
        /\ read => offset_after = get_prev(view, n).offset + Len(line)
        /\ ~read => /\ offset_after = get_prev(view, n).offset
                    /\ ~note.resync => offset_after = offset

\* C14: with a frontier at line n, highlight_one_line returns true exactly when
\* the line read is not empty, ends in a newline, and the state cached for line
\* n + 1 is absent or differs from the state computed for the line's end; then
\* it caches that state for line n + 1 and moves the frontier to n + 1.  In
\* every other case it closes the frontier and returns false.  A read that
\* fails or returns the empty line does not move offset: it stays at the
\* line's offset, the value the resynchronization gave it.  Without a frontier
\* the call returns false and the frontier stays closed.
C14_FrontierAdvanceRule ==
    [][pc = "idle" =>
         IF view.frontier # <<>> THEN C14_CallAtFrontier
         ELSE ~last'.note.ret /\ view'.frontier = <<>>]_vars

\* after an edit, a call resynchronized, computed for the end of its line a
\* state other than the cached one, and moved the frontier one line on
C14_Witness ==
    /\ last.op \in IdleOps
    /\ last.note.ret
    /\ last.note.resync
    /\ view.frontier = <<last.note.line + 1>>
    /\ view.cache[last.note.line + 1] = last.note.end_state
    /\ last.note.end_state # state_default

\* the index of the first entry of calls of a kind, 0 if there is none
FirstCall(calls, kind) ==
    IF \E k \in 1..Len(calls) : calls[k].call = kind
    THEN CHOOSE k \in 1..Len(calls) :
           calls[k].call = kind /\ \A j \in 1..(k - 1) : calls[j].call # kind
    ELSE 0

\* the step is a call of highlight_one_line that resynchronized: the host
\* resolved the frontier line to another offset than the driver tracked
C15_ResyncStep ==
    LET vs == view_states[ViewId]
        vs_after == view_states'[ViewId]
        note == last'.note
        calls == last'.calls
        resolved == get_prev(view, view.frontier[1]).offset
        m == FirstCall(calls, "resync")
        before == SubSeq(calls, 1, m - 1)
        after == SubSeq(calls, m + 1, Len(calls))
    IN  /\ m > 0
        /\ calls[m].offset = resolved
        /\ CallsOf(after, "resync") = <<>>
        \* the pending batch is flushed first, at its old start and length
        /\ CallsOf(before, "add_scopes") =
             IF vs.new_scopes # <<>>
             THEN <<[call |-> "add_scopes", scopes |-> vs.new_scopes]>> ELSE <<>>
        /\ CallsOf(before, "update_spans") =
             IF vs.spans_start # vs.offset
             THEN <<[call |-> "update_spans", start |-> vs.spans_start,
                     len |-> vs.offset - vs.spans_start, spans |-> vs.spans]>>
             ELSE <<>>
        \* then the batch restarts at the resolved offset
        /\ note.tokenized => note.line_lo = 0
        /\ vs_after.offset = resolved + (IF note.tokenized THEN note.line_len ELSE 0)
        /\ \A k \in 1..Len(after) :
              after[k].call = "update_spans"
                => /\ after[k].start = resolved
                   /\ after[k].len = note.line_len
                   /\ after[k].spans = note.spans
        /\ last'.op = "idle_line"
             => vs_after.spans_start = resolved /\ vs_after.spans = note.spans

\* C15: highlight_one_line resynchronizes exactly when the offset the host
\* resolves for the frontier line differs from the tracked offset; it then
\* flushes the pending batch at its old start and length before it tokenizes,
\* and sets offset and spans_start to the resolved offset, so that the batch
\* delivered at the new offset holds only spans computed after that.
C15_ResyncFlushesFirst ==
    [][(pc = "idle" /\ view.frontier # <<>>)
         => /\ last'.note.resync
                 <=> get_prev(view, view.frontier[1]).offset # view_states[ViewId].offset
            /\ last'.note.resync => C15_ResyncStep]_vars

\* after an edit a call resynchronized to an offset behind the end of the last
\* batch, tokenized, and delivered its spans at the resolved offset
C15_Witness ==
    /\ last.op \in SuspendOps
    /\ last.note.resync
    /\ last.note.tokenized
    /\ last.note.spans # <<>>
    /\ \E k \in 1..Len(last.calls) :
          /\ last.calls[k].call = "update_spans"
          /\ last.calls[k].spans = last.note.spans
          /\ last.calls[k].start = OffsetOfLine(view.lines, last.note.line)

\* when a call resynchronizes, nothing is pending
ResyncFindsNothingPending ==
    [][(pc = "idle" /\ last'.note.resync) => Flushed(view_states[ViewId])]_vars

\* what flush_spans owes a context c
C16_Contract(c) ==
    LET f == flush_spans(c)
        made == SubSeq(f.calls, Len(c.calls) + 1, Len(f.calls))
        scopes_pending == c.vs.new_scopes # <<>>
        bytes_pending == c.vs.spans_start # c.vs.offset
    IN  /\ SubSeq(f.calls, 1, Len(c.calls)) = c.calls
        /\ made = (IF scopes_pending
                   THEN <<[call |-> "add_scopes", scopes |-> c.vs.new_scopes]>>
                   ELSE <<>>)
                  \o (IF bytes_pending
                      THEN <<[call |-> "update_spans", start |-> c.vs.spans_start,
                              len |-> c.vs.offset - c.vs.spans_start,
                              spans |-> c.vs.spans]>>
                      ELSE <<>>)
        /\ f.view.scopes = c.view.scopes \o c.vs.new_scopes
        /\ f.vs.new_scopes = <<>>
        /\ f.vs.spans = IF bytes_pending THEN <<>> ELSE c.vs.spans
        /\ f.vs.spans_start = f.vs.offset
        /\ f.vs.offset = c.vs.offset
        /\ f.vs.tracker = c.vs.tracker
        /\ f.view.frontier = c.view.frontier
        /\ f.view.cache = c.view.cache

\* C16: flush_spans calls add_scopes, with all pending scopes, exactly when
\* new_scopes is not empty, and empties it; it calls update_spans(spans_start,
\* offset - spans_start, spans) and empties spans exactly when spans_start #
\* offset; afterwards spans_start = offset, and offset, the interner, the
\* frontier and the state cache are as before.  It holds wherever the driver
\* can call flush_spans: on the ViewState a handler finds (the
\* resynchronization), and after each call of highlight_one_line in idle.
C16_FlushSpansContract ==
    HasState =>
      /\ C16_Contract(Ctx(view_states[ViewId], view))
      /\ pc = "idle" =>
           \A fails \in BOOLEAN :
              C16_Contract(highlight_one_line(Ctx(view_states[ViewId], view), fails))

\* the flush at the end of an idle invocation registered two scopes and then
\* delivered a batch of spans
C16_Witness ==
    /\ last.op = "idle_done"
    /\ Len(last.calls) = 2
    /\ last.calls[1].call = "add_scopes"
    /\ Len(last.calls[1].scopes) >= 2
    /\ last.calls[2].call = "update_spans"
    /\ last.calls[2].spans # <<>>

\* the ids of the table are exactly 0 .. next_id - 1, one scope each
IdsDense(tracker) ==
    /\ { tracker.elements[s] : s \in DOMAIN tracker.elements } = 0..(tracker.next_id - 1)
    /\ Cardinality(DOMAIN tracker.elements) = tracker.next_id

\* the k-th distinct scope looked up has id k - 1
IdsFirstSeen(tracker, seen) ==
    /\ Elements(seen) = DOMAIN tracker.elements
    /\ \A k \in 1..Len(seen) : tracker.elements[seen[k]] = k - 1

\* every mapping of the table before is in the table after
AppendOnly(before, after) ==
    /\ before.next_id <= after.next_id
    /\ \A s \in DOMAIN before.elements :
          s \in DOMAIN after.elements /\ after.elements[s] = before.elements[s]

\* C17: in a session (the life of a ViewState) the ids the interner has
\* assigned are exactly 0 .. next_id - 1, the k-th distinct scope looked up has
\* id k - 1, and the table only grows: no step removes or changes a mapping or
\* lowers next_id.
C17_DenseFirstSeenIds ==
    [][/\ HasState' => /\ IdsDense(view_states'[ViewId].tracker)
                       /\ IdsFirstSeen(view_states'[ViewId].tracker, hist'.seen)
       /\ (HasState /\ HasState')
            => AppendOnly(view_states[ViewId].tracker, view_states'[ViewId].tracker)]_vars

\* after a save, a language change or an edit, a scope was looked up for the
\* first time and got the id after the ids assigned before the event
C17_Witness ==
    /\ HasState
    /\ events >= 1
    /\ last.note.pushed # <<>>
    /\ view_states[ViewId].tracker.next_id > Len(last.note.pushed)
    /\ view_states[ViewId].tracker.next_id = Len(hist.seen)

RECURSIVE RegisteredBeforeUse(_, _, _)
\* from entry i on, every update_spans call of calls uses only ids of scopes
\* registered before it: a scope id is the position of its scope among the
\* scopes delivered by add_scopes, counted from 0; reg are the scopes delivered
\* before entry i
RegisteredBeforeUse(reg, calls, i) ==
    IF i > Len(calls) THEN TRUE
    ELSE CASE calls[i].call = "add_scopes" ->
                RegisteredBeforeUse(reg \o calls[i].scopes, calls, i + 1)
           [] calls[i].call = "update_spans" ->
                /\ \A j \in 1..Len(calls[i].spans) :
                      /\ calls[i].spans[j].scope_id < Len(reg)
                      /\ reg[calls[i].spans[j].scope_id + 1] = calls[i].spans[j].scope
                /\ RegisteredBeforeUse(reg, calls, i + 1)
           [] OTHER -> RegisteredBeforeUse(reg, calls, i + 1)

\* C18: in a session, under any interleaving of new_view, did_save,
\* language_changed, update and idle, every scope id in the spans of an
\* update_spans call was delivered to the host by an add_scopes call before it
\* (in an earlier handler or earlier in the same flush), and add_scopes
\* delivers no scope twice.
C18_ScopesRegisteredBeforeUse ==
    [][HasState' => /\ RegisteredBeforeUse(view.scopes, last'.calls, 1)
                    /\ NoDuplicates(view'.scopes)
                    /\ \A k \in 1..Len(last'.calls) :
                          last'.calls[k].call = "add_scopes"
                            => NoDuplicates(last'.calls[k].scopes)]_vars

\* after an event, a batch used the id of a scope registered by an earlier
\* handler together with the id of a scope registered in the same flush
C18_Witness ==
    /\ last.op \in SuspendOps
    /\ events >= 1
    /\ Len(last.calls) >= 2
    /\ last.calls[1].call = "add_scopes"
    /\ Len(view.scopes) > Len(last.calls[1].scopes)
    /\ \E k \in 2..Len(last.calls) :
          /\ last.calls[k].call = "update_spans"
          /\ \E i, j \in 1..Len(last.calls[k].spans) :
                /\ last.calls[k].spans[i].scope \in Elements(last.calls[1].scopes)
                /\ last.calls[k].spans[j].scope \notin Elements(last.calls[1].scopes)

\* C19: in every state between two calls of the driver's operations
\* spans_start <= offset, and spans_start < offset when spans are pending; so
\* none of the subtractions offset - spans_start underflows: the one of
\* compute_syntax (the offset of the tokenized line in the batch) is not
\* negative, and every update_spans call has a positive length and so no flush
\* leaves pending spans undelivered.
C19_BatchBounds ==
    /\ HasState =>
         /\ view_states[ViewId].spans_start <= view_states[ViewId].offset
         /\ view_states[ViewId].spans # <<>>
              => view_states[ViewId].spans_start < view_states[ViewId].offset
    /\ last.note.tokenized => last.note.line_lo >= 0
    /\ \A k \in 1..Len(last.calls) :
          last.calls[k].call = "update_spans" => last.calls[k].len > 0

\* spans are pending between two calls of highlight_one_line, in a batch that
\* a resynchronization started beyond the end of the last batch delivered
C19_Witness ==
    /\ pc = "idle"
    /\ last.op = "idle_line"
    /\ last.note.resync
    /\ view_states[ViewId].spans # <<>>
    /\ hist.upd_last # <<>>
    /\ RangeEnd(hist.upd_last[1]) < view_states[ViewId].spans_start

\* do_highlighting has started a scan
C20_ScanStarted == HasState /\ last.op = "new_view"

\* an idle invocation ended with the frontier closed and without schedule_idle,
\* and no idle notification is scheduled
C20_ScanEnded ==
    /\ pc = "ready"
    /\ last.op = "idle_done"
    /\ view.frontier = <<>>
    /\ CallsOf(last.calls, "schedule_idle") = <<>>
    /\ view.idle = 0

\* C20: on a finite buffer, with no edit and no re-highlight, the host running
\* every idle notification it has scheduled, a scan started by do_highlighting
\* reaches an idle invocation that ends with the frontier closed and does not
\* call schedule_idle.  Until then an idle invocation that reschedules has
\* moved the frontier forward: each of its calls of highlight_one_line returned
\* true and moved the frontier one line on.
C20_ScanTerminates ==
    /\ C20_ScanStarted ~> C20_ScanEnded
    /\ [][(pc = "idle" /\ last'.op \in {"idle_line", "idle_yield", "idle_budget"})
            => /\ view.frontier # <<>>
               /\ view'.frontier = <<view.frontier[1] + 1>>]_vars

\* a scan reached the end of a buffer longer than the budget of one idle
\* invocation, after invocations that rescheduled
C20_Witness ==
    /\ C20_ScanEnded
    /\ Len(view.lines) > LINES_PER_RPC
    /\ last.note.outcome = "empty"
    /\ hist.upd_last # <<>>
    /\ RangeEnd(hist.upd_last[1]) = OffsetOfLine(view.lines, Len(view.lines))

=============================================================================
